---- MODULE Spec2Model ----
(***************************************************************************)
(* Model of modbus_mcp/cli.py: six MCP tools, each of which opens its own  *)
(* pymodbus client through the get_modbus_client context manager, performs *)
(* one exchange and formats a text answer.                                 *)
(*                                                                         *)
(* A tool invocation is an asyncio coroutine.  It runs without interleaving*)
(* between its suspension points (await client.connect(), await of the one *)
(* read/write primitive), so the model has one action per such block.      *)
(* The pymodbus client and the FastMCP context are outside the repository: *)
(* what they answer (connected or not, error-flagged or value-bearing      *)
(* result, an exception, a cancellation) is chosen nondeterministically.   *)
(* Text built with f-strings is modelled as the sequence of its parts.     *)
(***************************************************************************)
EXTENDS Integers, Sequences, FiniteSets, TLC

\* ------------------------------------------------------------------ bounds
MaxCalls == 2       \* invocations dispatched in one behaviour
MaxLen == 4         \* longest bits / registers list a result carries

\* --------------------------------------------------- process-wide defaults
MODBUS_PORT == 502
MODBUS_SERIAL_PORT == "/dev/ttyUSB0"
MODBUS_BAUDRATE == 9600
MODBUS_PARITY == "N"
MODBUS_STOPBITS == 1
MODBUS_BYTESIZE == 8
MODBUS_TIMEOUT == 1

\* ------------------------------------------------------- argument universe
Calls == 1..MaxCalls

Ops == {"read_register", "write_register", "read_coils", "write_coil",
        "read_input_registers", "read_multiple_holding_registers"}
CountOps == {"read_coils", "read_input_registers",
             "read_multiple_holding_registers"}
Addresses == {0, 10, 70000}
Counts == {-1, 0, 1, 3, 2001}
SlaveIds == {1, 2}
RegValues == {7, 42}
\* per-call endpoints <<host, port>>; the first is the process-wide default
Endpoints == {<<"127.0.0.1", MODBUS_PORT>>, <<"plc", 1502>>}
Transports == {"tcp", "udp", "serial", "bluetooth"}

\* count and value are parameters of some tools only; the others carry 0
CountsOf(op) == IF op \in CountOps THEN Counts ELSE {0}
ValuesOf(op) == CASE op = "write_register" -> RegValues
                  [] op = "write_coil" -> BOOLEAN
                  [] OTHER -> {0}

\* what the transport library may raise from a call into it
Faults == {"ModbusIOException", "RuntimeError", "ValueError", "OSError"}

\* what ctx.info may raise: one type the tools handle, one they do not
InfoFaults == {"RuntimeError", "OSError"}

Min(a, b) == IF a < b THEN a ELSE b

RECURSIVE SeqsUpTo(_, _)
SeqsUpTo(S, n) ==
    IF n = 0 THEN {<<>>}
    ELSE LET shorter == SeqsUpTo(S, n - 1)
         IN  shorter \cup {Append(s, x) : s \in {t \in shorter : Len(t) = n - 1}, x \in S}

BitSeqs == SeqsUpTo(BOOLEAN, MaxLen)
RegSeqs == SeqsUpTo(RegValues, MaxLen)

\* ------------------------------------------------------------ Python str()
PyInt(n) == ToString(n)
PyBool(b) == IF b THEN "True" ELSE "False"

RECURSIVE PyJoin(_, _)
PyJoin(s, isBool) ==
    IF Len(s) = 0 THEN ""
    ELSE LET h == IF isBool THEN PyBool(Head(s)) ELSE PyInt(Head(s))
         IN  IF Len(s) = 1 THEN h ELSE h \o ", " \o PyJoin(Tail(s), isBool)

PyBoolList(s) == "[" \o PyJoin(s, TRUE) \o "]"
PyIntList(s) == "[" \o PyJoin(s, FALSE) \o "]"

\* s[:n] for n >= 0: never raises, gives what there is
Slice(s, n) == [i \in 1..Min(n, Len(s)) |-> s[i]]

\* ------------------------------------------------------ exception classes
Parent(t) == CASE t \in {"ModbusIOException", "ConnectionException"} -> "ModbusException"
               [] t = "IndexError" -> "LookupError"
               [] t \in {"CancelledError", "Exception"} -> "BaseException"
               [] t = "BaseException" -> "object"
               [] OTHER -> "Exception"

RECURSIVE IsInstance(_, _)
IsInstance(t, classes) ==
    IF t \in classes THEN TRUE
    ELSE IF t \in {"object", "none"} THEN FALSE
    ELSE IsInstance(Parent(t), classes)

NoException == [type |-> "none", msg |-> <<>>]
Exc(t, m) == [type |-> t, msg |-> m]

\* ---------------------------------------------------------- exchange results
NoResult == [kind |-> "none", isError |-> FALSE, text |-> "", registers |-> <<>>, bits |-> <<>>]
ErrorResult == [kind |-> "error", isError |-> TRUE, text |-> "ExceptionResponse(IllegalAddress)",
                registers |-> <<>>, bits |-> <<>>]
RegisterResult(regs) == [kind |-> "value", isError |-> FALSE, text |-> "ReadRegistersResponse",
                         registers |-> regs, bits |-> <<>>]
BitResult(bits) == [kind |-> "value", isError |-> FALSE, text |-> "ReadCoilsResponse",
                    registers |-> <<>>, bits |-> bits]
WriteResult == [kind |-> "value", isError |-> FALSE, text |-> "WriteResponse",
                registers |-> <<>>, bits |-> <<>>]

\* every answer a transport can give to the primitive of op
ResultsOf(op) ==
    {ErrorResult} \cup
    CASE op \in {"write_register", "write_coil"} -> {WriteResult}
      [] op = "read_coils" -> {BitResult(b) : b \in BitSeqs}
      [] OTHER -> {RegisterResult(r) : r \in RegSeqs}

\* ------------------------------------------------------------------- state
\* device: the holding registers of a transport that stores what is written
\* to it, by <<slave, address>>; other transports leave it alone
VARIABLES calls, clients, device
vars == <<calls, clients, device>>

IdleCall == [pc |-> "idle", op |-> "none", address |-> 0, count |-> 0, value |-> 0,
             slave_id |-> 0, host |-> "", port |-> 0, transport |-> "",
             client |-> 0, result |-> NoResult, info |-> <<>>, events |-> <<>>,
             ret |-> <<>>, exc |-> NoException]
RetiredCall == [IdleCall EXCEPT !.pc = "retired"]

\* a client object the garbage collector has reclaimed
CollectedClient == [kind |-> "collected", params |-> <<>>, owner |-> 0, connects |-> 0,
                    closes |-> 0, connected |-> FALSE, answer |-> "none",
                    requests |-> <<>>, users |-> {}]

DeviceCells == SlaveIds \X Addresses

Init == /\ calls = [c \in Calls |-> IdleCall]
        /\ clients = <<>>
        /\ device = [cell \in DeviceCells |-> 0]

\* ------------------------------------------------------- get_modbus_client
\* mutant of KnownTransport: the last branch builds a client for any name
AnyTransport(transport) == TRUE

KnownTransport(transport) == transport \in {"tcp", "udp", "serial"}

InvalidTransportText(transport) ==
    <<"Invalid transport: ", transport, ". Must be 'tcp', 'udp', or 'serial'.">>

FailedConnectText(k) ==
    <<"Failed to connect to Modbus ", k.transport, " device at ", k.host, ":", PyInt(k.port)>>

\* mutant of ConstructParams: the serial device path is taken from the call's host
ConstructParamsHostAsDevice(host, port, transport) ==
    IF transport = "serial"
    THEN [port |-> host, baudrate |-> MODBUS_BAUDRATE, parity |-> MODBUS_PARITY,
          stopbits |-> MODBUS_STOPBITS, bytesize |-> MODBUS_BYTESIZE, timeout |-> MODBUS_TIMEOUT]
    ELSE [host |-> host, port |-> port]

\* keyword arguments handed to the pymodbus constructor
ConstructParams(host, port, transport) ==
    IF transport = "serial"
    THEN [port |-> MODBUS_SERIAL_PORT, baudrate |-> MODBUS_BAUDRATE, parity |-> MODBUS_PARITY,
          stopbits |-> MODBUS_STOPBITS, bytesize |-> MODBUS_BYTESIZE, timeout |-> MODBUS_TIMEOUT]
    ELSE [host |-> host, port |-> port]

NewClient(c, host, port, transport) ==
    [kind |-> transport, params |-> ConstructParams(host, port, transport), owner |-> c,
     connects |-> 0, closes |-> 0, connected |-> FALSE, answer |-> "none",
     requests |-> <<>>, users |-> {}]

\* mutant of FreshClientId: one module-level client kept between calls
SharedClientId(cls) == 1

\* a constructor call yields a new object, distinct from every earlier one
FreshClientId(cls) == Len(cls) + 1

Construct(cls, id, cl) ==
    [j \in 1..(IF id > Len(cls) THEN id ELSE Len(cls)) |-> IF j = id THEN cl ELSE cls[j]]

\* mutant of InvokeConnect: connect() is attempted a second time
InvokeConnectTwice(cls, id, c) ==
    [cls EXCEPT ![id].connects = @ + 2, ![id].users = @ \cup {c}]

\* await client.connect(): the call is made, the coroutine suspends
InvokeConnect(cls, id, c) ==
    [cls EXCEPT ![id].connects = @ + 1, ![id].users = @ \cup {c}]

\* the transport's answer to connect(): the connected flag (answer keeps what
\* the transport said once close() has reset the flag)
ConnectAnswered(cls, id, connected) ==
    [cls EXCEPT ![id].connected = connected,
                ![id].answer = IF connected THEN "connected" ELSE "refused"]

ConnectFaulted(cls, id) == [cls EXCEPT ![id].answer = "raised"]

\* "if not client.connected: raise RuntimeError"
ConnectCheckFails(cl) == ~cl.connected

\* "if client:"
Truthy(id) == id # 0

\* mutants of ReleasesOn: release only after a normal exit (no try/finally);
\* release in an "except Exception" clause, which a cancellation bypasses
ReleasesOnNormalExit(excType) == excType = "none"
ReleasesUnlessCancelled(excType) == excType # "CancelledError"

\* mutant of ReleasesOn: close() sits in an except clause, so a body that ends
\* normally leaves the client open
ReleasesOnError(excType) == excType # "none"

\* "finally:" runs however the body is left: normally ("none"), by an
\* exception, or by the CancelledError thrown in at a suspension point
ReleasesOn(excType) == TRUE

CloseClient(cls, id, c) ==
    [cls EXCEPT ![id].closes = @ + 1, ![id].connected = FALSE, ![id].users = @ \cup {c}]

\* ------------------------------------------------------------------- tools
\* mutant of CountRejected: the documented upper limit is enforced as well
CountRejectedOversized(op, count) == op \in CountOps /\ (count <= 0 \/ count > 2000)

\* mutant of CountRejected: "count < 0"
CountRejectedNegative(op, count) == op \in CountOps /\ count < 0

CountRejected(op, count) == op \in CountOps /\ count <= 0

CountErrorText == <<"Error: Count must be positive">>

HandledTypes == {"ModbusException", "RuntimeError", "ValueError"}
Caught(excType) == IsInstance(excType, HandledTypes)

\* mutant of CommErrorText: the endpoint is left out
CommErrorTextNoEndpoint(k, e) ==
    <<"Error communicating with slave ", PyInt(k.slave_id), ": ">> \o e.msg

CommErrorText(k, e) ==
    <<"Error communicating with slave ", PyInt(k.slave_id), " at ", k.host, ":",
      PyInt(k.port), ": ">> \o e.msg

Primitive(op) == CASE op \in {"read_register", "read_multiple_holding_registers"}
                        -> "read_holding_registers"
                   [] OTHER -> op

\* mutant of Request: read_register addresses registers from 1
RequestOneBased(k) ==
    [fn |-> Primitive(k.op),
     address |-> IF k.op = "read_register" THEN k.address + 1 ELSE k.address,
     slave |-> k.slave_id,
     count |-> CASE k.op = "read_register" -> 1
                 [] k.op \in CountOps -> k.count
                 [] OTHER -> 0,
     value |-> k.value]

\* the keyword arguments of the one primitive call
Request(k) ==
    [fn |-> Primitive(k.op), address |-> k.address, slave |-> k.slave_id,
     count |-> CASE k.op = "read_register" -> 1
                 [] k.op \in CountOps -> k.count
                 [] OTHER -> 0,
     value |-> k.value]

InvokePrimitive(cls, id, c, req) ==
    [cls EXCEPT ![id].requests = Append(@, req), ![id].users = @ \cup {c}]

A(k) == PyInt(k.address)
S(k) == PyInt(k.slave_id)
At(k) == <<" at ", k.host, ":", PyInt(k.port)>>
V(k) == IF k.op = "write_coil" THEN PyBool(k.value) ELSE PyInt(k.value)
RangeEnd(k) == PyInt(k.address + k.count - 1)

\* mutant of ErrorText: the message carries only the raw result
ErrorTextBare(k, r) == <<"Error: ", r.text>>

ErrorText(k, r) ==
    CASE k.op = "read_register" ->
           <<"Error reading register ", A(k), " from slave ", S(k)>> \o At(k) \o <<": ", r.text>>
      [] k.op = "write_register" ->
           <<"Error writing to register ", A(k), " on slave ", S(k)>> \o At(k) \o <<": ", r.text>>
      [] k.op = "read_coils" ->
           <<"Error reading coils starting at ", A(k), " from slave ", S(k)>> \o At(k)
             \o <<": ", r.text>>
      [] k.op = "write_coil" ->
           <<"Error writing to coil ", A(k), " on slave ", S(k)>> \o At(k) \o <<": ", r.text>>
      [] k.op = "read_input_registers" ->
           <<"Error reading input registers starting at ", A(k), " from slave ", S(k)>> \o At(k)
             \o <<": ", r.text>>
      [] k.op = "read_multiple_holding_registers" ->
           <<"Error reading holding registers starting at ", A(k), " from slave ", S(k)>>
             \o At(k) \o <<": ", r.text>>

\* result.registers[0] raises IndexError on an empty list
ExtractFault(k, r) ==
    IF k.op = "read_register" /\ Len(r.registers) = 0
    THEN Exc("IndexError", <<"list index out of range">>)
    ELSE NoException

\* does the tool read result.registers / result.bits at all
Extracts(op) == op \notin {"write_register", "write_coil"}

InfoText(k, r) ==
    CASE k.op = "read_register" ->
           <<"Read register ", A(k), " from slave ", S(k)>> \o At(k)
             \o <<": ", PyInt(r.registers[1])>>
      [] k.op = "write_register" ->
           <<"Wrote ", V(k), " to register ", A(k), " on slave ", S(k)>> \o At(k)
      [] k.op = "read_coils" ->
           <<"Read ", PyInt(k.count), " coils starting at ", A(k), " from slave ", S(k)>>
             \o At(k) \o <<": ", PyBoolList(r.bits)>>
      [] k.op = "write_coil" ->
           <<"Wrote ", V(k), " to coil ", A(k), " on slave ", S(k)>> \o At(k)
      [] k.op = "read_input_registers" ->
           <<"Read ", PyInt(k.count), " input registers starting at ", A(k), " from slave ",
             S(k)>> \o At(k) \o <<": ", PyIntList(r.registers)>>
      [] k.op = "read_multiple_holding_registers" ->
           <<"Read ", PyInt(k.count), " holding registers starting at ", A(k), " from slave ",
             S(k)>> \o At(k) \o <<": ", PyIntList(r.registers)>>

\* mutant of CoilValues: the whole list, no slice
CoilValuesAll(r, count) == r.bits

\* result.bits[:count]
CoilValues(r, count) == Slice(r.bits, count)

SuccessText(k, r) ==
    CASE k.op = "read_register" ->
           <<"Slave ", S(k), ", Register ", A(k), " Value: ", PyInt(r.registers[1])>>
      [] k.op = "write_register" ->
           <<"Successfully wrote ", V(k), " to register ", A(k), " on slave ", S(k)>>
      [] k.op = "read_coils" ->
           <<"Slave ", S(k), ", Coils ", A(k), " to ", RangeEnd(k), ": ",
             PyBoolList(CoilValues(r, k.count))>>
      [] k.op = "write_coil" ->
           <<"Successfully wrote ", V(k), " to coil ", A(k), " on slave ", S(k)>>
      [] k.op = "read_input_registers" ->
           <<"Slave ", S(k), ", Input Registers ", A(k), " to ", RangeEnd(k), ": ",
             PyIntList(r.registers)>>
      [] k.op = "read_multiple_holding_registers" ->
           <<"Slave ", S(k), ", Holding Registers ", A(k), " to ", RangeEnd(k), ": ",
             PyIntList(r.registers)>>

Log(k, evs) == [k EXCEPT !.events = @ \o evs]

\* the tool's except clause: a handled exception becomes the returned text,
\* any other leaves the coroutine
Handle(k, e) ==
    IF Caught(e.type)
    THEN [Log(k, <<"return">>) EXCEPT !.pc = "returned", !.ret = CommErrorText(k, e)]
    ELSE [Log(k, <<"raise">>) EXCEPT !.pc = "raised", !.exc = e]

\* mutant of LeaveCall: the result is handed back first and the client is
\* closed afterwards
LeaveCallReturnFirst(k, e, text) ==
    LET k1 == IF e.type = "none"
              THEN [Log(k, <<"return">>) EXCEPT !.pc = "returned", !.ret = text]
              ELSE Handle(k, e)
    IN  IF ReleasesOn(e.type) /\ Truthy(k.client) THEN Log(k1, <<"close">>) ELSE k1

\* leaving the "async with" block and then the tool: the finally clause of
\* get_modbus_client runs first, then either the return statement completes
\* with text or the exception e reaches the except clause
LeaveCall(k, e, text) ==
    LET released == ReleasesOn(e.type) /\ Truthy(k.client)
        k1 == IF released THEN Log(k, <<"close">>) ELSE k
    IN  IF e.type = "none"
        THEN [Log(k1, <<"return">>) EXCEPT !.pc = "returned", !.ret = text]
        ELSE Handle(k1, e)

LeaveClients(cls, c, k, e) ==
    IF ReleasesOn(e.type) /\ Truthy(k.client) THEN CloseClient(cls, k.client, c) ELSE cls

FaultText(f) == <<f, " from the transport">>

\* --------------------------------------------------------------- the steps
\* mutant of Dispatchable: a module-wide lock is held for the whole call, so a
\* tool starts only when no other call is in flight
DispatchableUnderLock(c) ==
    /\ calls[c].pc = "idle"
    /\ IF c = 1 THEN TRUE ELSE calls[c - 1].pc # "idle"
    /\ \A d \in DOMAIN calls : d # c => calls[d].pc \notin {"connecting", "exchanging"}

\* calls are numbered in the order the framework dispatches them
Dispatchable(c) ==
    /\ calls[c].pc = "idle"
    /\ IF c = 1 THEN TRUE ELSE calls[c - 1].pc # "idle"

\* mutant of Dispatch: the transport kind is examined before the count
DispatchTransportFirst(c, op, address, count, value, slave_id, host, port, transport, outcome) ==
    LET k == Log([IdleCall EXCEPT !.pc = "running", !.op = op, !.address = address,
                    !.count = count, !.value = value, !.slave_id = slave_id,
                    !.host = host, !.port = port, !.transport = transport],
                 <<"validate">>)
        id == FreshClientId(clients)
    IN  /\ Dispatchable(c)
        /\ IF ~KnownTransport(transport)
           THEN /\ outcome = "ok"
                /\ calls' = [calls EXCEPT ![c] =
                       LeaveCall(k, Exc("ValueError", InvalidTransportText(transport)), <<>>)]
                /\ UNCHANGED clients
           ELSE IF CountRejected(op, count)
           THEN /\ outcome = "ok"
                /\ calls' = [calls EXCEPT ![c] = LeaveCall(k, NoException, CountErrorText)]
                /\ UNCHANGED clients
           ELSE IF outcome # "ok"
           THEN /\ calls' = [calls EXCEPT ![c] =
                       LeaveCall(Log(k, <<"construct">>), Exc(outcome, FaultText(outcome)), <<>>)]
                /\ UNCHANGED clients
           ELSE /\ calls' = [calls EXCEPT ![c] =
                       [Log(k, <<"construct", "connect">>) EXCEPT !.pc = "connecting",
                                                                  !.client = id]]
                /\ clients' = InvokeConnect(
                       Construct(clients, id, NewClient(c, host, port, transport)), id, c)
        /\ UNCHANGED device

\* A tool is called: everything up to the first suspension point.  The count
\* check comes first, then get_modbus_client picks the constructor; outcome
\* is "ok" or the fault the constructor raises.
Dispatch(c, op, address, count, value, slave_id, host, port, transport, outcome) ==
    LET k == Log([IdleCall EXCEPT !.pc = "running", !.op = op, !.address = address,
                    !.count = count, !.value = value, !.slave_id = slave_id,
                    !.host = host, !.port = port, !.transport = transport],
                 <<"validate">>)
        id == FreshClientId(clients)
    IN  /\ Dispatchable(c)
        /\ IF CountRejected(op, count)
           THEN /\ outcome = "ok"
                /\ calls' = [calls EXCEPT ![c] = LeaveCall(k, NoException, CountErrorText)]
                /\ UNCHANGED clients
           ELSE IF ~KnownTransport(transport)
           THEN /\ outcome = "ok"
                /\ calls' = [calls EXCEPT ![c] =
                       LeaveCall(k, Exc("ValueError", InvalidTransportText(transport)), <<>>)]
                /\ UNCHANGED clients
           ELSE IF outcome # "ok"
           THEN /\ calls' = [calls EXCEPT ![c] =
                       LeaveCall(Log(k, <<"construct">>), Exc(outcome, FaultText(outcome)), <<>>)]
                /\ UNCHANGED clients
           ELSE /\ calls' = [calls EXCEPT ![c] =
                       [Log(k, <<"construct", "connect">>) EXCEPT !.pc = "connecting",
                                                                  !.client = id]]
                /\ clients' = InvokeConnect(
                       Construct(clients, id, NewClient(c, host, port, transport)), id, c)
        /\ UNCHANGED device

\* await client.connect() returns; the connected flag is checked and, when it
\* is set, the client is yielded and the tool calls its one primitive
ConnectReturns(c, connected) ==
    LET k == calls[c]
        cls == ConnectAnswered(clients, k.client, connected)
        k1 == Log(k, <<"connected_check">>)
        e == Exc("RuntimeError", FailedConnectText(k))
    IN  /\ k.pc = "connecting"
        /\ IF ConnectCheckFails(cls[k.client])
           THEN /\ calls' = [calls EXCEPT ![c] = LeaveCall(k1, e, <<>>)]
                /\ clients' = LeaveClients(cls, c, k1, e)
           ELSE /\ calls' = [calls EXCEPT ![c] =
                       [Log(k1, <<"exchange">>) EXCEPT !.pc = "exchanging"]]
                /\ clients' = InvokePrimitive(cls, k.client, c, Request(k))
        /\ UNCHANGED device

\* await client.connect() raises f
ConnectRaises(c, f) ==
    LET k == calls[c]
        e == Exc(f, FaultText(f))
    IN  /\ k.pc = "connecting"
        /\ calls' = [calls EXCEPT ![c] = LeaveCall(k, e, <<>>)]
        /\ clients' = LeaveClients(ConnectFaulted(clients, k.client), c, k, e)
        /\ UNCHANGED device

\* the primitive returns r; info is "ok" or the fault ctx.info raises
ExchangeReturns(c, r, info) ==
    LET k == Log([calls[c] EXCEPT !.result = r], <<"isError">>)
        x == ExtractFault(k, r)
        kx == IF Extracts(k.op) THEN Log(k, <<"extract">>) ELSE k
        ki == Log(kx, <<"info">>)
        ei == Exc(info, FaultText(info))
    IN  /\ calls[c].pc = "exchanging"
        /\ IF r.isError
           THEN /\ info = "ok"
                /\ calls' = [calls EXCEPT ![c] = LeaveCall(k, NoException, ErrorText(k, r))]
                /\ clients' = LeaveClients(clients, c, k, NoException)
           ELSE IF x.type # "none"
           THEN /\ info = "ok"
                /\ calls' = [calls EXCEPT ![c] = LeaveCall(kx, x, <<>>)]
                /\ clients' = LeaveClients(clients, c, kx, x)
           ELSE IF info # "ok"
           THEN /\ calls' = [calls EXCEPT ![c] = LeaveCall(ki, ei, <<>>)]
                /\ clients' = LeaveClients(clients, c, ki, ei)
           ELSE /\ calls' = [calls EXCEPT ![c] =
                       LeaveCall([ki EXCEPT !.info = InfoText(k, r)], NoException,
                                 SuccessText(k, r))]
                /\ clients' = LeaveClients(clients, c, ki, NoException)

\* the primitive raises f
ExchangeRaises(c, f) ==
    LET k == calls[c]
        e == Exc(f, FaultText(f))
    IN  /\ k.pc = "exchanging"
        /\ calls' = [calls EXCEPT ![c] = LeaveCall(k, e, <<>>)]
        /\ clients' = LeaveClients(clients, c, k, e)
        /\ UNCHANGED device

\* the hosting framework cancels the task: CancelledError is thrown into the
\* coroutine at the await it is suspended in
Cancel(c) ==
    LET k == Log(calls[c], <<"cancel">>)
        e == Exc("CancelledError", <<>>)
    IN  /\ calls[c].pc \in {"connecting", "exchanging"}
        /\ calls' = [calls EXCEPT ![c] = LeaveCall(k, e, <<>>)]
        /\ clients' = LeaveClients(clients, c, k, e)
        /\ UNCHANGED device

Ended(k) == k.pc \in {"returned", "raised", "retired"}
InFlight(k) == k.pc \in {"connecting", "exchanging"}

\* the answer has been handed back: the coroutine's frame is dropped and its
\* client, which nothing else references, is reclaimed
Retire(c) ==
    /\ calls[c].pc \in {"returned", "raised"}
    /\ calls' = [calls EXCEPT ![c] = RetiredCall]
    /\ clients' = [j \in 1..Len(clients) |->
                      IF j = calls[c].client THEN CollectedClient ELSE clients[j]]
    /\ UNCHANGED device

\* ------------------------------------------------------------------ tools
\* one invocation at a time, over the whole argument universe
Quiet(c) == \A d \in Calls \ {c} : calls[d].pc \in {"idle", "retired"}

Tool(c, op) ==
    /\ Dispatchable(c)
    /\ Quiet(c)
    /\ \E address \in Addresses, count \in CountsOf(op), value \in ValuesOf(op),
          slave_id \in SlaveIds, ep \in Endpoints, transport \in Transports,
          outcome \in {"ok"} \cup Faults :
          Dispatch(c, op, address, count, value, slave_id, ep[1], ep[2], transport, outcome)

read_register(c) == Tool(c, "read_register")
write_register(c) == Tool(c, "write_register")
read_coils(c) == Tool(c, "read_coils")
write_coil(c) == Tool(c, "write_coil")
read_input_registers(c) == Tool(c, "read_input_registers")
read_multiple_holding_registers(c) == Tool(c, "read_multiple_holding_registers")

Next ==
    \E c \in Calls :
        \/ read_register(c)
        \/ write_register(c)
        \/ read_coils(c)
        \/ write_coil(c)
        \/ read_input_registers(c)
        \/ read_multiple_holding_registers(c)
        \/ \E connected \in BOOLEAN : ConnectReturns(c, connected)
        \/ \E f \in Faults : ConnectRaises(c, f)
        \/ /\ calls[c].pc = "exchanging"
           /\ \E r \in ResultsOf(calls[c].op), info \in {"ok"} \cup InfoFaults :
                  ExchangeReturns(c, r, info)
           /\ UNCHANGED device
        \/ \E f \in Faults : ExchangeRaises(c, f)
        \/ Cancel(c)
        \/ Retire(c)

Spec == Init /\ [][Next]_vars

\* -------------------------------------------------- concurrent dispatch
\* The framework may dispatch a tool while others are suspended.  Invocations
\* share nothing, so the concurrent specification draws them from a small
\* set of argument tuples and transport answers.
ConcArgs ==
    {<<"read_register", 0, 0, 0, 1, "tcp">>,
     <<"write_register", 10, 0, 42, 1, "udp">>,
     <<"read_coils", 0, 3, 0, 1, "tcp">>,
     <<"read_coils", 0, 0, 0, 2, "tcp">>,
     <<"write_coil", 10, 0, TRUE, 2, "serial">>,
     <<"read_input_registers", 0, 1, 0, 1, "tcp">>,
     <<"read_multiple_holding_registers", 10, 3, 0, 1, "serial">>,
     <<"read_register", 0, 0, 0, 1, "bluetooth">>}

ConcFaults == {"ModbusIOException", "OSError"}

ConcResultsOf(op) ==
    {ErrorResult} \cup
    CASE op \in {"write_register", "write_coil"} -> {WriteResult}
      [] op = "read_coils" -> {BitResult(<<TRUE, FALSE, TRUE, TRUE>>)}
      [] OTHER -> {RegisterResult(<<42>>)}

ConcTool(c) ==
    /\ Dispatchable(c)
    /\ \E a \in ConcArgs :
          Dispatch(c, a[1], a[2], a[3], a[4], a[5], "127.0.0.1", MODBUS_PORT, a[6], "ok")

ConcNext ==
    \E c \in Calls :
        \/ ConcTool(c)
        \/ \E connected \in BOOLEAN : ConnectReturns(c, connected)
        \/ \E f \in ConcFaults : ConnectRaises(c, f)
        \/ /\ calls[c].pc = "exchanging"
           /\ \E r \in ConcResultsOf(calls[c].op) : ExchangeReturns(c, r, "ok")
           /\ UNCHANGED device
        \/ \E f \in ConcFaults : ExchangeRaises(c, f)
        \/ Cancel(c)

ConcSpec == Init /\ [][ConcNext]_vars

\* ------------------------------------------------- completing transport
\* The awaited transport calls complete: a pending connect() returns or
\* raises, and a pending exchange returns or raises.  Nothing is assumed about
\* when the framework starts or cancels a tool.
ConnectCompletes(c) ==
    \/ \E connected \in BOOLEAN : ConnectReturns(c, connected)
    \/ \E f \in ConcFaults : ConnectRaises(c, f)

ExchangeCompletes(c) ==
    \/ /\ calls[c].pc = "exchanging"
       /\ \E r \in ConcResultsOf(calls[c].op) : ExchangeReturns(c, r, "ok")
       /\ UNCHANGED device
    \/ \E f \in ConcFaults : ExchangeRaises(c, f)

\* one invocation of each way through a tool: an exchange, a rejected count
\* and an unknown transport
LiveArgs ==
    {<<"read_register", 0, 0, 0, 1, "tcp">>,
     <<"read_coils", 0, 0, 0, 2, "tcp">>,
     <<"write_coil", 10, 0, TRUE, 2, "bluetooth">>}

LiveTool(c) ==
    /\ Dispatchable(c)
    /\ \E a \in LiveArgs :
          Dispatch(c, a[1], a[2], a[3], a[4], a[5], "127.0.0.1", MODBUS_PORT, a[6], "ok")

LiveNext ==
    \E c \in Calls :
        \/ LiveTool(c)
        \/ ConnectCompletes(c)
        \/ ExchangeCompletes(c)
        \/ Cancel(c)

LiveSpec ==
    /\ Init
    /\ [][LiveNext]_vars
    /\ \A c \in Calls : WF_vars(ConnectCompletes(c)) /\ WF_vars(ExchangeCompletes(c))

\* ------------------------------------------------- a storing transport
\* A transport that keeps written holding registers: write_register stores
\* the value under the slave and address it was given, and a read of holding
\* registers answers what is stored (0 where nothing is).  Calls are made
\* one after the other and stay visible after they end.
CellValue(dev, slave, address) ==
    IF <<slave, address>> \in DOMAIN dev THEN dev[<<slave, address>>] ELSE 0

StoreAnswer(dev, req) ==
    IF req.fn = "write_register" THEN WriteResult
    ELSE RegisterResult([i \in 1..req.count |-> CellValue(dev, req.slave, req.address + i - 1)])

StoreWrite(dev, req, r) ==
    IF req.fn = "write_register" /\ ~r.isError /\ <<req.slave, req.address>> \in DOMAIN dev
    THEN [dev EXCEPT ![<<req.slave, req.address>>] = req.value]
    ELSE dev

StoreAddresses == {0, 10}

StoreTool(c) ==
    /\ Dispatchable(c)
    /\ \A d \in Calls \ {c} : ~InFlight(calls[d])
    /\ \E op \in {"write_register", "read_register"}, address \in StoreAddresses,
          slave_id \in SlaveIds :
          \E value \in ValuesOf(op) :
             Dispatch(c, op, address, 0, value, slave_id, "127.0.0.1", MODBUS_PORT, "tcp", "ok")

StoreExchange(c) ==
    /\ calls[c].pc = "exchanging"
    /\ LET req == clients[calls[c].client].requests[1]
       IN  \E r \in {ErrorResult, StoreAnswer(device, req)} :
              /\ ExchangeReturns(c, r, "ok")
              /\ device' = StoreWrite(device, req, r)

StoreNext ==
    \E c \in Calls :
        \/ StoreTool(c)
        \/ \E connected \in BOOLEAN : ConnectReturns(c, connected)
        \/ StoreExchange(c)

StoreSpec == Init /\ [][StoreNext]_vars

\* ------------------------------------------------------------------ claims
Has(seq, x) == \E i \in 1..Len(seq) : seq[i] = x
Finished(k) == k.pc \in {"returned", "raised"}
Live(cl) == cl.kind # "collected"
OwnedBy(c) == {j \in 1..Len(clients) : clients[j].owner = c}
CommErrorHead == "Error communicating with slave "

\* C1: when an invocation has ended, whatever the outcome, every client it
\* constructed has had close() called as often as connect(), and exactly once
\* when a connection was acquired.
C1_ReleasedExactlyOnce ==
    \A c \in Calls :
        Finished(calls[c]) =>
            /\ \A j \in OwnedBy(c) :
                   clients[j].closes = clients[j].connects /\ clients[j].closes <= 1
            /\ calls[c].client # 0 =>
                   /\ calls[c].client \in OwnedBy(c)
                   /\ clients[calls[c].client].closes = 1

\* C1 witness: the exchange raised a fault the tool does not handle, and the
\* client was closed once all the same.
C1_Witness ==
    \E c \in Calls :
        /\ calls[c].pc = "raised" /\ calls[c].exc.type = "OSError"
        /\ Has(calls[c].events, "exchange")
        /\ clients[calls[c].client].connects = 1
        /\ clients[calls[c].client].closes = 1

\* C2 (as stated): no invocation ends by raising a fault of the transport,
\* of the value extraction or of the trace call; only a cancellation may
\* leave the coroutine as an exception.
C2_NeverRaises ==
    \A c \in Calls : calls[c].pc = "raised" => calls[c].exc.type = "CancelledError"

\* C4: an invocation cancelled while awaiting connect() or the exchange has
\* its client closed.
C4_CancelReleases ==
    \A c \in Calls :
        calls[c].exc.type = "CancelledError" =>
            /\ calls[c].client \in OwnedBy(c)
            /\ clients[calls[c].client].closes = 1
            /\ ~clients[calls[c].client].connected

\* C4 witness: one invocation cancelled while connecting, another while
\* exchanging, both with their client closed.
C4_Witness ==
    \E c, d \in Calls :
        /\ calls[c].exc.type = "CancelledError" /\ calls[d].exc.type = "CancelledError"
        /\ ~Has(calls[c].events, "connected_check")
        /\ Has(calls[d].events, "exchange")
        /\ clients[calls[c].client].closes = 1
        /\ clients[calls[d].client].closes = 1

\* C5: a multi-element read called with count <= 0 returns "Error: Count
\* must be positive" and constructs no client, so connect() is never called.
C5_CountRejectedBeforeConnect ==
    \A c \in Calls :
        (calls[c].op \in {"read_coils", "read_input_registers",
                          "read_multiple_holding_registers"} /\ calls[c].count <= 0) =>
            /\ calls[c].pc = "returned"
            /\ calls[c].ret = <<"Error: Count must be positive">>
            /\ calls[c].client = 0
            /\ OwnedBy(c) = {}

\* C5 witness: count = 0 over an unknown transport was rejected for its count.
C5_Witness ==
    \E c \in Calls :
        /\ calls[c].op = "read_input_registers" /\ calls[c].count = 0
        /\ calls[c].transport = "bluetooth"
        /\ calls[c].pc = "returned"

\* C6 (as stated): after connect() raised or left connected false, the tool
\* returns the communication-error text, no primitive was invoked and the
\* client is closed.
C6_ConnectFailureReturned ==
    \A c \in Calls :
        (calls[c].client # 0 /\ clients[calls[c].client].answer \in {"refused", "raised"}) =>
            /\ calls[c].pc = "returned"
            /\ Head(calls[c].ret) = CommErrorHead
            /\ clients[calls[c].client].requests = <<>>
            /\ clients[calls[c].client].closes = 1

\* C7: a call whose count passes and whose transport is none of tcp, udp,
\* serial returns the communication-error text naming the invalid transport;
\* no client is constructed, so nothing is connected, exchanged or closed.
C7_UnknownTransportNoClient ==
    \A c \in Calls :
        (/\ calls[c].pc \notin {"idle", "retired"}
         /\ calls[c].transport \notin {"tcp", "udp", "serial"}
         /\ ~(calls[c].op \in {"read_coils", "read_input_registers",
                               "read_multiple_holding_registers"} /\ calls[c].count <= 0)) =>
            /\ calls[c].pc = "returned"
            /\ Head(calls[c].ret) = CommErrorHead
            /\ Has(calls[c].ret, "Invalid transport: ")
            /\ Has(calls[c].ret, calls[c].transport)
            /\ calls[c].client = 0
            /\ OwnedBy(c) = {}

\* C7 witness: write_coil over "bluetooth" has returned.
C7_Witness ==
    \E c \in Calls :
        /\ calls[c].op = "write_coil" /\ calls[c].transport = "bluetooth"
        /\ calls[c].pc = "returned"

ProtocolErrorHead(op) ==
    CASE op = "read_register" -> "Error reading register "
      [] op = "write_register" -> "Error writing to register "
      [] op = "read_coils" -> "Error reading coils starting at "
      [] op = "write_coil" -> "Error writing to coil "
      [] op = "read_input_registers" -> "Error reading input registers starting at "
      [] op = "read_multiple_holding_registers" -> "Error reading holding registers starting at "

\* C8: when the primitive's result is error-flagged the tool returns its
\* protocol-error text, which contains the call's address and slave ID; the
\* client is closed and result.registers / result.bits was never read.
C8_ProtocolError ==
    \A c \in Calls :
        calls[c].result.isError =>
            /\ calls[c].pc = "returned"
            /\ Head(calls[c].ret) = ProtocolErrorHead(calls[c].op)
            /\ Has(calls[c].ret, ToString(calls[c].address))
            /\ Has(calls[c].ret, ToString(calls[c].slave_id))
            /\ Has(calls[c].ret, calls[c].result.text)
            /\ clients[calls[c].client].closes = 1
            /\ ~Has(calls[c].events, "extract")
            /\ calls[c].info = <<>>

\* C8 witness: read_multiple_holding_registers got an error-flagged result.
C8_Witness ==
    \E c \in Calls :
        /\ calls[c].op = "read_multiple_holding_registers"
        /\ calls[c].result.isError
        /\ calls[c].pc = "returned"

\* C9: connect() is invoked at most once per client; a primitive is invoked
\* once when the transport answered connected and never otherwise; an
\* invocation that saw a failed connect or any exchange answer has ended.
C9_NoRetry ==
    \A j \in 1..Len(clients) :
        LET cl == clients[j]
            k == calls[cl.owner]
        IN  Live(cl) =>
                /\ cl.connects <= 1
                /\ Len(cl.requests) <= 1
                /\ k.pc = "connecting" => (cl.answer = "none" /\ cl.requests = <<>>)
                /\ k.pc # "connecting" =>
                       Len(cl.requests) = (IF cl.answer = "connected" THEN 1 ELSE 0)
                /\ k.pc = "exchanging" => (cl.answer = "connected" /\ k.result.kind = "none")
                /\ (cl.answer \in {"refused", "raised"} \/ k.result.kind # "none") =>
                       Finished(k)

\* C9 witness: a refused connect ended the call with one connect() and no
\* primitive call.
C9_Witness ==
    \E j \in 1..Len(clients) :
        /\ clients[j].answer = "refused"
        /\ clients[j].connects = 1
        /\ clients[j].requests = <<>>
        /\ calls[clients[j].owner].pc = "returned"

\* v holds the elements of s at positions 1..n that exist, in order, and
\* nothing else
IsFirstOf(v, s, n) ==
    /\ Len(v) <= Len(s) /\ Len(v) <= n
    /\ Len(v) = n \/ Len(v) = Len(s)
    /\ \A i \in 1..Len(v) : v[i] = s[i]

\* C10: a successful read_coils reports the first count bits of the list the
\* transport returned, in order: no bit beyond position count is reported.
C10_CoilsTruncated ==
    \A c \in Calls :
        (/\ calls[c].op = "read_coils" /\ calls[c].pc = "returned"
         /\ calls[c].result.kind = "value" /\ Head(calls[c].ret) = "Slave ") =>
            \E v \in BitSeqs :
                /\ calls[c].ret[Len(calls[c].ret)] = PyBoolList(v)
                /\ IsFirstOf(v, calls[c].result.bits, calls[c].count)

\* C10 witness: count = 3 against bits [true, false, true, true] answers
\* [True, False, True].
C10_Witness ==
    \E c \in Calls :
        /\ calls[c].op = "read_coils" /\ calls[c].count = 3 /\ calls[c].address = 0
        /\ calls[c].result.bits = <<TRUE, FALSE, TRUE, TRUE>>
        /\ calls[c].pc = "returned"
        /\ calls[c].ret[Len(calls[c].ret)] = "[True, False, True]"

\* C3: under concurrent dispatch every client belongs to the one invocation
\* that constructed it and only that invocation has called its methods; no
\* two invocations hold the same client; an invocation has at most one
\* connection open; and when no invocation is in flight none is open.
IsOpen(cl) == cl.connects > cl.closes

C3_NoLeakNoReuse ==
    /\ \A j \in 1..Len(clients) :
           /\ clients[j].owner \in Calls
           /\ clients[j].users \subseteq {clients[j].owner}
           /\ calls[clients[j].owner].client = j
    /\ \A c, d \in Calls :
           (c # d /\ calls[c].client # 0) => calls[c].client # calls[d].client
    /\ \A c \in Calls : Cardinality({j \in OwnedBy(c) : IsOpen(clients[j])}) <= 1
    /\ (\A c \in Calls : ~InFlight(calls[c])) =>
           \A j \in 1..Len(clients) : ~IsOpen(clients[j]) /\ ~clients[j].connected

\* C3 witness: two invocations ran interleaved, each on its own client, and
\* both have ended with their connections closed.
C3_Witness ==
    /\ Len(clients) >= 2
    /\ \A c \in Calls : Finished(calls[c])
    /\ \E c, d \in Calls :
           /\ c < d
           /\ Has(calls[c].events, "exchange") /\ Has(calls[d].events, "exchange")
           /\ clients[calls[c].client].closes = 1
           /\ clients[calls[d].client].closes = 1

\* the text reports a list of exactly n elements
ReportsBits(ret, n) == \E v \in BitSeqs : ret[Len(ret)] = PyBoolList(v) /\ Len(v) = n
ReportsRegisters(ret, n) == \E v \in RegSeqs : ret[Len(ret)] = PyIntList(v) /\ Len(v) = n

\* C11 (as stated): a successful multi-element read called with count = N
\* reports exactly N values, whatever the length of the list in the result.
C11_ExactlyN ==
    \A c \in Calls :
        (/\ calls[c].op \in {"read_coils", "read_input_registers",
                             "read_multiple_holding_registers"}
         /\ calls[c].pc = "returned" /\ Head(calls[c].ret) = "Slave ") =>
            IF calls[c].op = "read_coils"
            THEN ReportsBits(calls[c].ret, calls[c].count)
            ELSE ReportsRegisters(calls[c].ret, calls[c].count)

WroteOk(k) == k.op = "write_register" /\ k.pc = "returned" /\ Head(k.ret) = "Successfully wrote "
ReadOk(k) == k.op = "read_register" /\ k.pc = "returned" /\ Head(k.ret) = "Slave "

\* C12: over a storing transport, when write_register(a, v, s) succeeded and
\* a later read_register(a, s) succeeds with no successful write to (a, s)
\* between them, the read reports v; the read handed address a, slave s and
\* count = 1 to read_holding_registers.
C12_RoundTrip ==
    \A c, d \in Calls :
        (/\ c < d /\ WroteOk(calls[c]) /\ ReadOk(calls[d])
         /\ calls[c].address = calls[d].address /\ calls[c].slave_id = calls[d].slave_id
         /\ \A e \in Calls :
                (c < e /\ e < d /\ WroteOk(calls[e])) =>
                    (calls[e].address # calls[c].address \/ calls[e].slave_id # calls[c].slave_id))
        => /\ calls[d].ret[Len(calls[d].ret)] = ToString(calls[c].value)
           /\ clients[calls[d].client].requests =
                  <<[fn |-> "read_holding_registers", address |-> calls[d].address,
                     slave |-> calls[d].slave_id, count |-> 1, value |-> 0]>>

\* C12 witness: write_register(10, 42, 1) then read_register(10, 1) gave 42.
C12_Witness ==
    \E c, d \in Calls :
        /\ c < d /\ WroteOk(calls[c]) /\ ReadOk(calls[d])
        /\ calls[c].address = 10 /\ calls[c].value = 42 /\ calls[c].slave_id = 1
        /\ calls[d].address = 10 /\ calls[d].slave_id = 1
        /\ calls[d].ret[Len(calls[d].ret)] = "42"

Dispatched(k) == k.pc \notin {"idle", "retired"}
CountPasses(k) ==
    ~(k.op \in {"read_coils", "read_input_registers", "read_multiple_holding_registers"}
      /\ k.count <= 0)

\* the request carries the call's own arguments
PassedUnchanged(k, req) ==
    /\ req.address = k.address /\ req.slave = k.slave_id
    /\ k.op \in {"read_coils", "read_input_registers", "read_multiple_holding_registers"}
           => req.count = k.count
    /\ k.op = "read_register" => req.count = 1
    /\ k.op \in {"write_register", "write_coil"} => req.value = k.value

\* C13 (as stated): a call whose count is not rejected never returns the
\* validation text and always has a connection attempted, whatever its other
\* arguments.
C13_OnlyCountRejected ==
    \A c \in Calls :
        (Dispatched(calls[c]) /\ CountPasses(calls[c])) =>
            /\ calls[c].ret # <<"Error: Count must be positive">>
            /\ Has(calls[c].events, "construct")
            /\ calls[c].client # 0 => clients[calls[c].client].connects = 1

\* C13 (amended): a call whose count is not rejected and whose transport is
\* tcp, udp or serial never returns the validation text; the client
\* constructor is called and, when it returns, connect() is invoked once; the
\* primitive receives address, slave, count and value unchanged; an
\* error-flagged result is returned as the tool's protocol-error text.
C13_OnlyCountRejectedKnownTransport ==
    \A c \in Calls :
        LET k == calls[c]
        IN  (Dispatched(k) /\ CountPasses(k) /\ k.transport \in {"tcp", "udp", "serial"}) =>
                /\ k.ret # <<"Error: Count must be positive">>
                /\ Has(k.events, "construct")
                /\ k.client = 0 => (Finished(k) /\ ~Has(k.events, "connect"))
                /\ k.client # 0 =>
                       /\ clients[k.client].connects = 1
                       /\ \A i \in 1..Len(clients[k.client].requests) :
                              PassedUnchanged(k, clients[k.client].requests[i])
                /\ k.result.isError => Head(k.ret) = ProtocolErrorHead(k.op)

\* C13 witness: read_coils with address 70000 and count 2001 went to the
\* transport as given and its error-flagged answer came back as a protocol
\* error.
C13_Witness ==
    \E c \in Calls :
        /\ calls[c].op = "read_coils" /\ calls[c].address = 70000 /\ calls[c].count = 2001
        /\ calls[c].result.isError
        /\ clients[calls[c].client].requests[1].count = 2001
        /\ clients[calls[c].client].requests[1].address = 70000
        /\ Head(calls[c].ret) = "Error reading coils starting at "

\* a returned text is a success text exactly when the trace message was sent
Succeeded(k) == k.pc = "returned" /\ k.info # <<>>
Failed(k) == k.pc = "returned" /\ k.info = <<>>

NamesSlave(k) == Has(k.ret, ToString(k.slave_id))
NamesEndpoint(k) == Has(k.ret, k.host) /\ Has(k.ret, ToString(k.port))
NamesAddress(k) == Has(k.ret, ToString(k.address))
NamesOperationInFailure(k) == Head(k.ret) = ProtocolErrorHead(k.op)
NamesOperationInSuccess(k) ==
    CASE k.op = "read_register" -> Head(k.ret) = "Slave " /\ Has(k.ret, ", Register ")
      [] k.op = "write_register" ->
           Head(k.ret) = "Successfully wrote " /\ Has(k.ret, " to register ")
      [] k.op = "read_coils" -> Head(k.ret) = "Slave " /\ Has(k.ret, ", Coils ")
      [] k.op = "write_coil" -> Head(k.ret) = "Successfully wrote " /\ Has(k.ret, " to coil ")
      [] k.op = "read_input_registers" ->
           Head(k.ret) = "Slave " /\ Has(k.ret, ", Input Registers ")
      [] k.op = "read_multiple_holding_registers" ->
           Head(k.ret) = "Slave " /\ Has(k.ret, ", Holding Registers ")
NamesCause(k) ==
    \/ Has(k.ret, "Invalid transport: ")
    \/ Has(k.ret, "Failed to connect to Modbus ")
    \/ Has(k.ret, " from the transport")
LastOf(ret) == ret[Len(ret)]
NamesValues(k) ==
    CASE k.op = "read_register" -> LastOf(k.ret) = ToString(k.result.registers[1])
      [] k.op = "write_register" -> Has(k.ret, ToString(k.value))
      [] k.op = "write_coil" -> Has(k.ret, IF k.value THEN "True" ELSE "False")
      [] k.op = "read_coils" ->
           \E v \in BitSeqs : LastOf(k.ret) = PyBoolList(v)
                              /\ IsFirstOf(v, k.result.bits, k.count)
      [] OTHER -> \E v \in RegSeqs : LastOf(k.ret) = PyIntList(v) /\ v = k.result.registers
NamesRange(k) ==
    k.op \in {"read_coils", "read_input_registers", "read_multiple_holding_registers"}
        => Has(k.ret, ToString(k.address + k.count - 1))

\* C14 (as stated): every failure text names the operation, the slave ID,
\* the endpoint and the cause; every success text names the operation, the
\* address or range, the slave ID and the values.
C14_TextsNameEverything ==
    \A c \in Calls :
        LET k == calls[c]
        IN  /\ Failed(k) => (NamesOperationInFailure(k) /\ NamesSlave(k) /\ NamesEndpoint(k))
            /\ Succeeded(k) => (NamesOperationInSuccess(k) /\ NamesAddress(k) /\ NamesRange(k)
                                /\ NamesSlave(k) /\ NamesValues(k))

\* C14 (amended): a protocol-error text names the operation, the address,
\* the slave ID, the endpoint and the raw result; a communication-error text
\* names the slave ID, the endpoint and the cause, not the operation; the
\* validation text is the fixed "Error: Count must be positive"; a success
\* text names the operation, the address or range, the slave ID and the
\* values.
C14_TextsByKind ==
    \A c \in Calls :
        LET k == calls[c]
        IN  /\ (Failed(k) /\ k.result.isError) =>
                   /\ NamesOperationInFailure(k) /\ NamesAddress(k) /\ NamesSlave(k)
                   /\ NamesEndpoint(k) /\ LastOf(k.ret) = k.result.text
            /\ (Failed(k) /\ ~CountPasses(k)) => k.ret = <<"Error: Count must be positive">>
            /\ (Failed(k) /\ CountPasses(k) /\ ~k.result.isError) =>
                   /\ Head(k.ret) = CommErrorHead
                   /\ NamesSlave(k) /\ NamesEndpoint(k) /\ NamesCause(k)
                   /\ \A op \in Ops : Head(k.ret) # ProtocolErrorHead(op)
            /\ Succeeded(k) => (NamesOperationInSuccess(k) /\ NamesAddress(k) /\ NamesRange(k)
                                /\ NamesSlave(k) /\ NamesValues(k))

\* C14 witness: a refused connect has been reported by read_input_registers
\* as a communication error on the second endpoint.
C14_Witness ==
    \E c \in Calls :
        /\ calls[c].op = "read_input_registers" /\ Failed(calls[c])
        /\ calls[c].client # 0 /\ clients[calls[c].client].answer = "refused"
        /\ calls[c].host = "plc"
        /\ Has(calls[c].ret, "plc") /\ Has(calls[c].ret, "1502")

\* the serial parameters read from the environment when the module is loaded
ProcessWideSerial ==
    [port |-> MODBUS_SERIAL_PORT, baudrate |-> MODBUS_BAUDRATE, parity |-> MODBUS_PARITY,
     stopbits |-> MODBUS_STOPBITS, bytesize |-> MODBUS_BYTESIZE, timeout |-> MODBUS_TIMEOUT]

\* C15: a serial client is constructed from the process-wide serial
\* parameters alone, whatever the call's arguments are; a tcp or udp client
\* is constructed from exactly the call's host and port.
C15_ConstructionParameters ==
    \A c \in Calls :
        calls[c].client # 0 =>
            LET cl == clients[calls[c].client]
            IN  /\ cl.kind = calls[c].transport
                /\ IF cl.kind = "serial"
                   THEN cl.params = ProcessWideSerial
                   ELSE /\ DOMAIN cl.params = {"host", "port"}
                        /\ cl.params.host = calls[c].host
                        /\ cl.params.port = calls[c].port

\* C15 witness: a serial client was built for a call that named the second
\* endpoint, and its exchange has been answered.
C15_Witness ==
    \E c \in Calls :
        /\ calls[c].transport = "serial" /\ calls[c].host = "plc" /\ calls[c].port = 1502
        /\ calls[c].client # 0 /\ calls[c].pc = "returned"
        /\ clients[calls[c].client].params.port = MODBUS_SERIAL_PORT
        /\ Has(calls[c].events, "exchange")

\* position of an event in the order validation, construction, connect,
\* connected check, exchange, close, end of the call; 0 for the other events
Rank(e) ==
    CASE e = "validate" -> 1
      [] e = "construct" -> 2
      [] e = "connect" -> 3
      [] e = "connected_check" -> 4
      [] e = "exchange" -> 5
      [] e = "close" -> 6
      [] e \in {"return", "raise"} -> 7
      [] OTHER -> 0

InOrder(evs) ==
    \A i, j \in DOMAIN evs :
        (i < j /\ Rank(evs[i]) > 0 /\ Rank(evs[j]) > 0) => Rank(evs[i]) < Rank(evs[j])

\* C16: within one invocation the events occur only in the order validation,
\* construction, connect, connected check, at most one exchange, close,
\* return; an exchange is invoked only after the connected check has passed,
\* and a call that connected has closed its client before it ends.
C16_EventOrder ==
    \A c \in Calls :
        LET k == calls[c]
        IN  /\ InOrder(k.events)
            /\ Has(k.events, "exchange") =>
                   /\ Has(k.events, "connected_check")
                   /\ clients[k.client].answer = "connected"
            /\ (Ended(k) /\ Has(k.events, "connect")) => Has(k.events, "close")

\* C16 witness: a call went through every one of the seven events and
\* returned a success text.
C16_Witness ==
    \E c \in Calls :
        /\ Succeeded(calls[c])
        /\ \A e \in {"validate", "construct", "connect", "connected_check",
                     "exchange", "close", "return"} : Has(calls[c].events, e)

\* C18: for the three multi-element reads, a call with both count <= 0 and an
\* unrecognized transport kind returns the validation text, not the text of
\* the transport error: the count is checked before the transport kind.
C18_ValidationBeforeTransport ==
    \A c \in Calls :
        LET k == calls[c]
        IN  (Dispatched(k) /\ k.op \in CountOps /\ k.count <= 0 /\ ~KnownTransport(k.transport)) =>
                /\ k.pc = "returned"
                /\ k.ret = <<"Error: Count must be positive">>
                /\ ~Has(k.ret, "Invalid transport: ")
                /\ ~Has(k.events, "construct")

\* C18 witness: read_coils with count -1 over an unrecognized transport has
\* returned.
C18_Witness ==
    \E c \in Calls :
        /\ calls[c].op = "read_coils" /\ calls[c].count = -1
        /\ calls[c].transport = "bluetooth"
        /\ calls[c].pc = "returned"
        /\ calls[c].ret = <<"Error: Count must be positive">>

NextToDispatch(c) == calls[c].pc = "idle" /\ (IF c = 1 THEN TRUE ELSE calls[c - 1].pc # "idle")

\* C17: concurrent invocations are not serialized: whatever the other
\* invocations are doing, the next tool can be started, a pending connect can
\* complete and start its exchange, and a pending exchange can complete; no
\* step of one invocation waits for another invocation.
C17_NotSerialized ==
    \A c \in Calls :
        /\ NextToDispatch(c) => ENABLED ConcTool(c)
        /\ calls[c].pc = "connecting" => ENABLED ConnectReturns(c, TRUE)
        /\ calls[c].pc = "exchanging" =>
               ENABLED (ExchangeReturns(c, ErrorResult, "ok") /\ UNCHANGED device)

\* C17 witness: two invocations against the same device both hold an open
\* connection, each on its own client, and both exchanges are pending.
C17_Witness ==
    \E c, d \in Calls :
        /\ c # d
        /\ calls[c].pc = "exchanging" /\ calls[d].pc = "exchanging"
        /\ calls[c].host = calls[d].host /\ calls[c].port = calls[d].port
        /\ calls[c].transport = calls[d].transport
        /\ calls[c].client # calls[d].client
        /\ IsOpen(clients[calls[c].client]) /\ IsOpen(clients[calls[d].client])

Closed(k) == k.client # 0 => clients[k.client].closes = 1

\* C19: when every awaited transport call completes or raises, every
\* invocation that has been started ends, by returning or raising, with the
\* client it constructed closed, whatever the other invocations do.
C19_Terminates ==
    \A c \in Calls :
        (calls[c].pc # "idle") ~> (calls[c].pc \in {"returned", "raised"} /\ Closed(calls[c]))

\* C19 witness: an invocation whose exchange raised an exception the tool
\* does not handle has ended with its client closed while another invocation
\* was still waiting for its connect.
C19_Witness ==
    \E c, d \in Calls :
        /\ c # d
        /\ calls[c].pc = "raised" /\ calls[c].exc.type = "OSError"
        /\ Has(calls[c].events, "exchange")
        /\ clients[calls[c].client].closes = 1
        /\ calls[d].pc = "connecting"
====
